---------------------------- MODULE Spec2Model ----------------------------
(***************************************************************************)
(* A model of the annotate docstring tool:                                 *)
(*   - docstring_extractor.py : DocstringExtractor (extract_from_file,     *)
(*     _generate_key, _create_note, extract_from_directory)                *)
(*   - generate_notes.py      : main (regroup, load, merge, write, report) *)
(*                                                                         *)
(* Source lines are strings taken from a small vocabulary of Python lines. *)
(* Docstring texts, note texts and note keys are sequences of one-char     *)
(* strings, so that str.startswith and the f-string formatting are         *)
(* computed rather than assumed.                                           *)
(***************************************************************************)
EXTENDS Integers, Sequences, FiniteSets, TLC

VARIABLES
    source_exists,  \* does sys.argv[1] exist on disk
    source_files,   \* json.load(source.json): sequence of [path, lines] (dict order)
    notes_file,     \* what is on disk at sys.argv[2]
    pc,             \* position of main
    idx,            \* extract_from_directory: index of the next source_files item
    note_counter,   \* DocstringExtractor.note_counter
    all_notes,      \* extract_from_directory: all_notes (dict, insertion order)
    created,        \* the _create_note calls made so far in this run
    file_counts,    \* len(file_notes) returned by each extract_from_file call
    notes_by_file,  \* main: notes_by_file
    existing_notes, \* main: existing_notes
    final_notes,    \* main: final_notes
    printed,        \* the two counts main prints
    run             \* number of the current invocation of the tool

vars == <<source_exists, source_files, notes_file, pc, idx, note_counter,
          all_notes, created, file_counts, notes_by_file, existing_notes,
          final_notes, printed, run>>

(***************************************************************************)
(* Bounds of the model.                                                    *)
(***************************************************************************)
MaxLines == 5      \* longest source file of SpecExtract
MaxFiles == 2      \* most entries of source.json in Spec
MaxExisting == 2   \* most notes in the prior notes.json in Spec
MaxRuns == 2       \* most consecutive invocations of the tool in Spec

(***************************************************************************)
(* Program constants.                                                      *)
(***************************************************************************)
PreContext == 2    \* pre_start = max(0, start - 2)
PostSpan == 3      \* post_end = min(len(source_lines), end + 3)

(***************************************************************************)
(* Python helpers.                                                         *)
(***************************************************************************)
Min(a, b) == IF a < b THEN a ELSE b
Max(a, b) == IF a > b THEN a ELSE b

\* seq[a:b] of Python: 0-indexed, half-open, negative indices count from the
\* end, everything clamped to the sequence.
PySlice(s, a, b) ==
    LET n  == Len(s)
        lo == IF a < 0 THEN Max(0, a + n) ELSE Min(a, n)
        hi == IF b < 0 THEN Max(0, b + n) ELSE Min(b, n)
    IN  IF lo >= hi THEN <<>> ELSE SubSeq(s, lo + 1, hi)

\* str.startswith on character sequences
StartsWith(text, prefix) ==
    /\ Len(text) >= Len(prefix)
    /\ SubSeq(text, 1, Len(prefix)) = prefix

\* str.endswith('.py') on a path; paths are drawn from a fixed set
EndsWithPy(path) ==
    CASE path = "a.py" -> TRUE
      [] path = "b.py" -> TRUE
      [] path = "old.py" -> TRUE
      [] path = "README.md" -> FALSE

\* str(n) for n >= 0, as characters
Digit(d) == <<"0", "1", "2", "3", "4", "5", "6", "7", "8", "9">>[d + 1]
RECURSIVE IntStr(_)
IntStr(n) == IF n < 10 THEN <<Digit(n)>> ELSE IntStr(n \div 10) \o <<Digit(n % 10)>>

(***************************************************************************)
(* The vocabulary of source lines and what Python's tokenizer makes of     *)
(* each: indentation depth, kind, the defined name, the string's text.     *)
(***************************************************************************)
L_mod    == "\"\"\"Mod doc.\"\"\""
L_blank  == ""
L_def    == "def f():"
L_class  == "class C:"
L_async  == "async def g():"
L_doc1   == "    \"\"\"Func doc.\"\"\""
L_pass1  == "    pass"
L_meth   == "    def m(self):"
L_open1  == "    \"\"\"Long"
L_close1 == "    doc.\"\"\""
L_empty1 == "    \"\"\"\"\"\""
L_doc2   == "        \"\"\"Meth doc.\"\"\""
L_pass2  == "        pass"

T_mod  == <<"M", "o", "d", " ", "d", "o", "c", ".">>
T_func == <<"F", "u", "n", "c", " ", "d", "o", "c", ".">>
T_meth == <<"M", "e", "t", "h", " ", "d", "o", "c", ".">>
T_long == <<"L", "o", "n", "g">>
T_tail == <<"d", "o", "c", ".">>

Tok(i, k, nm, tx) == [indent |-> i, kind |-> k, name |-> nm, text |-> tx]

Lex(line) ==
    CASE line = L_mod    -> Tok(0, "doc", <<>>, T_mod)
      [] line = L_blank  -> Tok(0, "blank", <<>>, <<>>)
      [] line = L_def    -> Tok(0, "def", <<"f">>, <<>>)
      [] line = L_class  -> Tok(0, "class", <<"C">>, <<>>)
      [] line = L_async  -> Tok(0, "async", <<"g">>, <<>>)
      [] line = L_doc1   -> Tok(1, "doc", <<>>, T_func)
      [] line = L_pass1  -> Tok(1, "stmt", <<>>, <<>>)
      [] line = L_meth   -> Tok(1, "def", <<"m">>, <<>>)
      [] line = L_open1  -> Tok(1, "docopen", <<>>, T_long)
      [] line = L_close1 -> Tok(1, "docclose", <<>>, T_tail)
      [] line = L_empty1 -> Tok(1, "doc", <<>>, <<>>)
      [] line = L_doc2   -> Tok(2, "doc", <<>>, T_meth)
      [] line = L_pass2  -> Tok(2, "stmt", <<>>, <<>>)

Vocabulary == {L_mod, L_blank, L_def, L_class, L_async, L_doc1, L_pass1, L_meth,
               L_open1, L_close1, L_empty1, L_doc2, L_pass2}

IsHeader(tok) == tok.kind \in {"def", "async", "class"}
\* a line that starts a statement (a blank line does not, nor does the
\* closing line of a two-line string)
IsCode(tok) == tok.kind \notin {"blank", "docclose"}

(***************************************************************************)
(* ast.parse on the vocabulary.  Statements are simple (pass, a string     *)
(* expression on one or two lines) or compound (def / async def / class    *)
(* followed by an indented block).  ParseLines runs the tokenizer's indent *)
(* stack over the lines; ok = FALSE is SyntaxError.  Each definition node  *)
(* is recorded with its 1-indexed lineno and its nesting depth.  A string   *)
(* opened by L_open1 is closed by L_close1 on the next line or not at all: *)
(* no input of this model puts other lines between the two.                *)
(***************************************************************************)
RECURSIVE ParseLines(_, _, _, _, _)
ParseLines(lines, i, stack, expect, nodes) ==
    IF i > Len(lines)
    THEN [ok |-> ~expect, nodes |-> nodes]
    ELSE
      LET tok == Lex(lines[i])
          top == stack[Len(stack)]
      IN CASE tok.kind = "blank" -> ParseLines(lines, i + 1, stack, expect, nodes)
           [] tok.kind = "docclose" ->
                \* only legal as the line right after the opening line
                IF i > 1 /\ Lex(lines[i - 1]).kind = "docopen"
                THEN ParseLines(lines, i + 1, stack, expect, nodes)
                ELSE [ok |-> FALSE, nodes |-> <<>>]
           [] OTHER ->
                LET unterminated ==
                        /\ tok.kind = "docopen"
                        /\ ~(i < Len(lines) /\ Lex(lines[i + 1]).kind = "docclose")
                    keep == SelectSeq(stack, LAMBDA d : d <= tok.indent)
                    stack2 == IF expect THEN Append(stack, tok.indent) ELSE keep
                    indentOk == IF expect
                                THEN tok.indent > top
                                ELSE /\ tok.indent <= top
                                     /\ keep[Len(keep)] = tok.indent
                    node == [kind |-> tok.kind, name |-> tok.name, lineno |-> i,
                             depth |-> Len(stack2) - 1]
                IN IF unterminated \/ ~indentOk
                   THEN [ok |-> FALSE, nodes |-> <<>>]
                   ELSE ParseLines(lines, i + 1, stack2, IsHeader(tok),
                                   IF IsHeader(tok) THEN Append(nodes, node) ELSE nodes)

AstParse(lines) == ParseLines(lines, 1, <<0>>, FALSE, <<>>)

\* 1-indexed line of the first statement after line i (0 if there is none):
\* node.body[0] of the definition at line i, tree.body[0] for i = 0
FirstStmt(lines, i) ==
    LET later == {j \in (i + 1)..Len(lines) : IsCode(Lex(lines[j]))}
    IN  IF later = {} THEN 0 ELSE CHOOSE j \in later : \A k \in later : j <= k

\* ast.get_docstring of the node whose body starts after line i: the cleaned
\* text of body[0] when that is a string expression, else None (<<>> here;
\* an empty string and None are both falsy)
GetDocstring(lines, i) ==
    LET j == FirstStmt(lines, i)
    IN  IF j = 0 THEN <<>>
        ELSE LET tok == Lex(lines[j])
             IN CASE tok.kind = "doc" -> tok.text
                  [] tok.kind = "docopen" -> tok.text \o <<"\n">> \o Lex(lines[j + 1]).text
                  [] OTHER -> <<>>

\* node.body[0].end_lineno (1-indexed) of the definition at line i
BodyEndLineno(lines, i) ==
    LET j == FirstStmt(lines, i)
    IN  IF Lex(lines[j]).kind = "docopen" THEN j + 1 ELSE j

\* ast.walk: breadth first, so definitions come by depth, then by line
RECURSIVE WalkFrom(_, _, _)
WalkFrom(nodes, depth, maxDepth) ==
    IF depth > maxDepth THEN <<>>
    ELSE SelectSeq(nodes, LAMBDA nd : nd.depth = depth) \o WalkFrom(nodes, depth + 1, maxDepth)

\* faulty variant: only the top-level definitions are visited
AstWalk_TopLevel(nodes) == SelectSeq(nodes, LAMBDA nd : nd.depth = 0)

AstWalk(nodes) == WalkFrom(nodes, 0, Len(nodes))

(***************************************************************************)
(* Dicts that keep insertion order: sequences of [key, val].               *)
(***************************************************************************)
DictHas(d, k) == \E i \in 1..Len(d) : d[i].key = k

\* d[k] = v
DictSet(d, k, v) ==
    IF DictHas(d, k)
    THEN [i \in 1..Len(d) |-> IF d[i].key = k THEN [key |-> k, val |-> v] ELSE d[i]]
    ELSE Append(d, [key |-> k, val |-> v])

\* d.update(e)
RECURSIVE DictUpdate(_, _)
DictUpdate(d, e) ==
    IF e = <<>> THEN d
    ELSE DictUpdate(DictSet(d, Head(e).key, Head(e).val), Tail(e))

(***************************************************************************)
(* DocstringExtractor                                                      *)
(***************************************************************************)
KeyPrefix == <<"n", "o", "t", "e", "_">>

\* faulty variant: the counter is not incremented
GenerateKey_NoIncrement(counter) ==
    [key |-> KeyPrefix \o IntStr(counter), counter |-> counter]

\* _generate_key: the key, and the counter after the call
GenerateKey(counter) ==
    [key |-> KeyPrefix \o IntStr(counter), counter |-> counter + 1]

TitleModule == <<"M", "o", "d", "u", "l", "e", " ", "D", "o", "c", "u", "m", "e", "n",
                 "t", "a", "t", "i", "o", "n">>
TitleClass(name) == <<"C", "l", "a", "s", "s", ":", " ">> \o name
TitleFunction(name) == <<"F", "u", "n", "c", "t", "i", "o", "n", ":", " ">> \o name

\* note_content of _create_note
NoteContent(title, docstring) ==
    IF title # <<>>
    THEN <<"#", "#", " ">> \o title \o <<"\n", "\n">> \o docstring
    ELSE docstring

\* faulty variant: the end of the slice is taken exclusive
CodeSlice_Exclusive(source_lines, start, end) ==
    IF source_lines # <<>> THEN PySlice(source_lines, start, end) ELSE <<>>

\* faulty variant: three lines after the anchor instead of two
PostSlice_ThreeAfter(source_lines, end) ==
    IF source_lines # <<>>
    THEN PySlice(source_lines, end + 1, Min(Len(source_lines), end + PostSpan + 1))
    ELSE <<>>

\* the three slices of _create_note
CodeSlice(source_lines, start, end) ==
    IF source_lines # <<>> THEN PySlice(source_lines, start, end + 1) ELSE <<>>

PreSlice(source_lines, start) ==
    IF source_lines # <<>>
    THEN PySlice(source_lines, Max(0, start - PreContext), start)
    ELSE <<>>

PostSlice(source_lines, end) ==
    IF source_lines # <<>>
    THEN PySlice(source_lines, end + 1, Min(Len(source_lines), end + PostSpan))
    ELSE <<>>

CreateNote(path, start, end, docstring, title, source_lines) ==
    [path |-> path,
     pre |-> PreSlice(source_lines, start),
     post |-> PostSlice(source_lines, end),
     code |-> CodeSlice(source_lines, start, end),
     note |-> NoteContent(title, docstring),
     collapsed |-> FALSE,
     codeCollapsed |-> FALSE]

\* faulty variant: lineno is not converted to 0-indexed
StartLine_OneIndexed(lineno) == lineno

\* start_line and end_line of the definition whose header is at 1-indexed lineno
StartLine(lineno) == lineno - 1
EndLine(lines, lineno) == BodyEndLineno(lines, lineno) - 1

NodeTitle(node) ==
    IF node.kind = "class" THEN TitleClass(node.name) ELSE TitleFunction(node.name)

\* The _create_note calls extract_from_file makes on a parsed file, in order:
\* the module docstring first, then every documented definition ast.walk yields.
ModuleCall(module_doc) ==
    IF module_doc # <<>>
    THEN <<[start |-> 0, end |-> 0, docstring |-> module_doc, title |-> TitleModule]>>
    ELSE <<>>

ModuleCalls(lines) == ModuleCall(GetDocstring(lines, 0))

DefinitionCall(lines, node) ==
    [start |-> StartLine(node.lineno),
     end |-> EndLine(lines, node.lineno),
     docstring |-> GetDocstring(lines, node.lineno),
     title |-> NodeTitle(node)]

DocumentedCalls(lines, documented) ==
    [k \in 1..Len(documented) |-> DefinitionCall(lines, documented[k])]

DefinitionCalls(lines, nodes) ==
    DocumentedCalls(lines, SelectSeq(AstWalk(nodes),
                                     LAMBDA nd : GetDocstring(lines, nd.lineno) # <<>>))

\* self._create_note(filepath, start_line, end_line, docstring, title, source_lines)
NoteOfCall(filepath, lines, c) ==
    CreateNote(filepath, c.start, c.end, c.docstring, c.title, lines)

\* file_notes[key] = self._create_note(...) for each call, keys from _generate_key
RECURSIVE StoreNotes(_, _, _, _, _)
StoreNotes(filepath, lines, calls, counter, file_notes) ==
    IF calls = <<>>
    THEN [file_notes |-> file_notes, counter |-> counter]
    ELSE StoreNotes(filepath, lines, Tail(calls), GenerateKey(counter).counter,
                    DictSet(file_notes, GenerateKey(counter).key,
                            NoteOfCall(filepath, lines, Head(calls))))

\* extract_from_file(filepath, '\n'.join(lines), lines) with the extractor's
\* counter: the returned dict, the counter afterwards and the calls made
CallRecord(filepath, lines, c) ==
    [path |-> filepath, start |-> c.start, end |-> c.end, n |-> Len(lines),
     title |-> c.title, note |-> NoteOfCall(filepath, lines, c)]

ExtractResult(filepath, lines, calls, out) ==
    [file_notes |-> out.file_notes, counter |-> out.counter,
     calls |-> [k \in 1..Len(calls) |-> CallRecord(filepath, lines, calls[k])]]

ExtractFromTree(filepath, lines, counter, calls) ==
    ExtractResult(filepath, lines, calls,
                  StoreNotes(filepath, lines, calls, counter, <<>>))

ExtractFromFile(filepath, lines, counter) ==
    IF ~AstParse(lines).ok
    THEN [file_notes |-> <<>>, counter |-> counter, calls |-> <<>>]
    ELSE ExtractFromTree(filepath, lines, counter,
                         ModuleCalls(lines)
                         \o DefinitionCalls(lines, AstParse(lines).nodes))

(***************************************************************************)
(* generate_notes.main: classification of the notes of the prior store     *)
(***************************************************************************)
PrefixModule == <<"#", "#", " ">> \o TitleModule
PrefixClass == <<"#", "#", " ", "C", "l", "a", "s", "s", ":">>
PrefixFunction == <<"#", "#", " ", "F", "u", "n", "c", "t", "i", "o", "n", ":">>

\* the three startswith tests of main
IsAutoText(note_text) ==
    \/ StartsWith(note_text, PrefixModule)
    \/ StartsWith(note_text, PrefixClass)
    \/ StartsWith(note_text, PrefixFunction)

\* faulty variant: the "## Function:" prefix is not tested
KeepsNote_NoFunction(note) ==
    /\ "note" \in DOMAIN note
    /\ ~(StartsWith(note.note, PrefixModule) \/ StartsWith(note.note, PrefixClass))

\* does main append this note of the prior store to final_notes[filepath]
KeepsNote(note) ==
    /\ "note" \in DOMAIN note
    /\ ~IsAutoText(note.note)

(***************************************************************************)
(* Path-keyed dicts of main (notes_by_file, existing_notes, final_notes)   *)
(* are functions from paths to sequences: main never depends on the order  *)
(* of their keys.                                                          *)
(***************************************************************************)
EmptyDict == [p \in {} |-> <<>>]

\* for key, note in flat_notes.items(): notes_by_file[note['path']].append(note)
Regrouped(flat_notes) ==
    LET paths == {flat_notes[i].val.path : i \in 1..Len(flat_notes)}
        vals == [i \in 1..Len(flat_notes) |-> flat_notes[i].val]
    IN  [p \in paths |-> SelectSeq(vals, LAMBDA nt : nt.path = p)]

\* faulty variant: the retained notes are put before the fresh ones
Merged_ManualFirst(by_file, existing) ==
    [p \in DOMAIN by_file \cup DOMAIN existing |->
        (IF p \in DOMAIN existing THEN SelectSeq(existing[p], KeepsNote) ELSE <<>>)
        \o (IF p \in DOMAIN by_file THEN by_file[p] ELSE <<>>)]

\* final_notes after the merge loop over existing_notes.items()
Merged(by_file, existing) ==
    [p \in DOMAIN by_file \cup DOMAIN existing |->
        (IF p \in DOMAIN by_file THEN by_file[p] ELSE <<>>)
        \o (IF p \in DOMAIN existing THEN SelectSeq(existing[p], KeepsNote) ELSE <<>>)]

\* notes_by_file after the merge loop: final_notes[filepath] = auto_note_list
\* binds the same list object, so the appends to final_notes[filepath] are
\* appends to notes_by_file[filepath] as well
AliasedByFile(by_file, final) == [p \in DOMAIN by_file |-> final[p]]

RECURSIVE SumLens(_, _)
SumLens(d, keys) ==
    IF keys = {} THEN 0
    ELSE LET k == CHOOSE x \in keys : TRUE
         IN  Len(d[k]) + SumLens(d, keys \ {k})

\* total_auto and total_final as main computes them before printing
TotalAuto(by_file) == SumLens(by_file, DOMAIN by_file)
TotalFinal(final) == SumLens(final, DOMAIN final)

(***************************************************************************)
(* Inputs                                                                  *)
(***************************************************************************)
FileExample == <<L_mod, L_blank, L_def, L_doc1, L_pass1>>
FileClass == <<L_class, L_doc1, L_meth, L_doc2, L_meth, L_doc2>>
\* a class with ten documented methods: eleven notes, so keys reach two digits
FileMany == FileClass \o <<L_meth, L_doc2, L_meth, L_doc2, L_meth, L_doc2, L_meth, L_doc2,
                           L_meth, L_doc2, L_meth, L_doc2, L_meth, L_doc2, L_meth, L_doc2>>
FileBroken == <<L_def>>
FileDedent == <<L_class, L_def, L_doc1>>
FileIndent == <<L_mod, L_doc1>>
FileUnclosed == <<L_def, L_open1, L_pass1>>
FileInterior == <<L_blank, L_blank, L_class, L_open1, L_close1, L_pass1, L_blank,
                  L_async, L_pass1>>
FileNested == <<L_mod, L_class, L_empty1, L_meth, L_doc2, L_pass2, L_def, L_doc1>>
SampleFiles == {FileExample, FileClass, FileBroken, FileDedent, FileIndent,
                FileUnclosed, FileInterior, FileNested}

\* what source.json may hold under each path
SourceChoices(path) ==
    CASE path = "a.py" -> {FileExample, FileBroken}
      [] path = "b.py" -> {FileMany}
      [] path = "README.md" -> {FileExample}

SourcePaths == {"a.py", "b.py", "README.md"}
StorePaths == {"a.py", "old.py"}

RECURSIVE SeqsUpTo(_, _)
SeqsUpTo(S, n) ==
    IF n = 0 THEN {<<>>}
    ELSE LET shorter == SeqsUpTo(S, n - 1)
         IN  shorter \cup {Append(q, x) : q \in shorter, x \in S}

\* json.load(source.json): a dict, so no path occurs twice
SourceInputs ==
    {sf \in SeqsUpTo(UNION {{[path |-> p, lines |-> f] : f \in SourceChoices(p)}
                            : p \in SourcePaths}, MaxFiles) :
        \A i, j \in 1..Len(sf) : i # j => sf[i].path # sf[j].path}

T_plain == <<"p", "l", "a", "i", "n", " ", "r", "e", "v", "i", "e", "w", " ",
             "c", "o", "m", "m", "e", "n", "t">>
T_oldclass == <<"#", "#", " ", "C", "l", "a", "s", "s", ":", " ", "F", "o", "o">>
T_lower == <<"#", "#", " ", "c", "l", "a", "s", "s", ":", " ", "f", "o", "o">>

StoredNote(path, text) ==
    [path |-> path, pre |-> <<>>, post |-> <<L_pass1>>, code |-> <<L_def>>,
     note |-> text, collapsed |-> TRUE, codeCollapsed |-> FALSE]

\* an entry of the store written without a note field
FieldlessNote(path) ==
    [path |-> path, pre |-> <<>>, post |-> <<>>, code |-> <<L_def>>,
     collapsed |-> FALSE, codeCollapsed |-> FALSE]

\* the notes the prior store may hold under each path
StoredNotes(path) ==
    CASE path = "a.py" -> {StoredNote(path, T_plain), StoredNote(path, T_oldclass),
                           StoredNote(path, T_lower), FieldlessNote(path)}
      [] path = "old.py" -> {StoredNote(path, T_plain), StoredNote(path, T_oldclass)}

\* a well-formed prior store: path -> list of note objects
StoreOf(entries) ==
    [p \in {entries[i].path : i \in 1..Len(entries)} |->
        SelectSeq(entries, LAMBDA e : e.path = p)]

StoreInputs ==
    {StoreOf(es) : es \in SeqsUpTo(UNION {StoredNotes(p) : p \in StorePaths}, MaxExisting)}

\* what may be on disk at notes_path when the tool starts
NotesFileInputs ==
    {[kind |-> "absent"],          \* notes_path.exists() is False
     [kind |-> "ioerror"],         \* open() raises IOError
     [kind |-> "badjson"],         \* json.load raises JSONDecodeError
     [kind |-> "baddecode"],       \* not UTF-8: json.load raises UnicodeDecodeError
     [kind |-> "json", shape |-> "list"]}   \* valid JSON, but a list
    \cup {[kind |-> "json", shape |-> "dict", store |-> st] : st \in StoreInputs}

\* Source files for the single-file runs, besides the samples above: every
\* sequence of vocabulary lines up to MaxLines in which a header is followed
\* by a line of its block (or a blank line), no other line is followed by a
\* deeper one, and a two-line string is closed on the next line.  Files that
\* end in a header or in an unclosed string are among them: with the broken
\* samples they are the SyntaxError inputs.
LastCode(f) ==
    LET code == SelectSeq(f, LAMBDA l : IsCode(Lex(l)))
    IN  IF code = <<>> THEN Tok(0, "stmt", <<>>, <<>>) ELSE Lex(code[Len(code)])

MayFollow(f, line) ==
    LET tok == Lex(line)
        prev == LastCode(f)
        open == f # <<>> /\ Lex(f[Len(f)]).kind = "docopen"
    IN  /\ (tok.kind = "docclose") = open
        /\ IF IsHeader(prev)
           THEN tok.kind = "blank" \/ tok.indent = prev.indent + 1
           ELSE tok.indent <= prev.indent

RECURSIVE FilesOfLen(_)
FilesOfLen(n) ==
    IF n = 0 THEN {<<>>}
    ELSE {Append(p[1], p[2]) :
            p \in {q \in FilesOfLen(n - 1) \X Vocabulary : MayFollow(q[1], q[2])}}

FileInputs == UNION {FilesOfLen(n) : n \in 0..MaxLines}

(***************************************************************************)
(* State machine                                                           *)
(***************************************************************************)
NoStore == [shape |-> "dict", store |-> EmptyDict]

\* the state of a fresh process: nothing extracted, nothing loaded
Fresh ==
    /\ idx = 1
    /\ note_counter = 0
    /\ all_notes = <<>>
    /\ created = <<>>
    /\ file_counts = <<>>
    /\ notes_by_file = EmptyDict
    /\ existing_notes = NoStore
    /\ final_notes = EmptyDict
    /\ printed = <<>>

Init ==
    /\ source_exists \in BOOLEAN
    /\ source_files \in SourceInputs
    /\ notes_file \in NotesFileInputs
    /\ source_exists = FALSE => (source_files = <<>> /\ notes_file.kind = "absent")
    /\ pc = "start"
    /\ run = 1
    /\ Fresh

\* main, lines 15-31: the argument and existence checks, json.load of the
\* source collection, construction of the extractor
Start ==
    /\ pc = "start"
    /\ pc' = IF source_exists THEN "extract" ELSE "exit1"
    /\ UNCHANGED <<source_exists, source_files, notes_file, idx, note_counter,
                   all_notes, created, file_counts, notes_by_file, existing_notes,
                   final_notes, printed, run>>

\* all_notes.update(file_notes), with the counter the extractor is left with
UpdateNotes(r) ==
    /\ note_counter' = r.counter
    /\ all_notes' = DictUpdate(all_notes, r.file_notes)
    /\ created' = created \o r.calls
    /\ file_counts' = Append(file_counts, Len(r.file_notes))

\* extract_from_directory: one iteration of the loop over source_files.items()
ExtractNext ==
    /\ pc = "extract"
    /\ idx <= Len(source_files)
    /\ IF ~EndsWithPy(source_files[idx].path)
       THEN UNCHANGED <<note_counter, all_notes, created, file_counts>>
       ELSE UpdateNotes(ExtractFromFile(source_files[idx].path,
                                        source_files[idx].lines, note_counter))
    /\ idx' = idx + 1
    /\ UNCHANGED <<source_exists, source_files, notes_file, pc, notes_by_file,
                   existing_notes, final_notes, printed, run>>

\* main, lines 33-40: the loop of extract_from_directory has ended and the flat
\* notes are regrouped by path
Regroup ==
    /\ pc = "extract"
    /\ idx > Len(source_files)
    /\ notes_by_file' = Regrouped(all_notes)
    /\ pc' = "load"
    /\ UNCHANGED <<source_exists, source_files, notes_file, idx, note_counter,
                   all_notes, created, file_counts, existing_notes, final_notes,
                   printed, run>>

\* main, lines 42-49: the prior store is loaded; only JSONDecodeError and
\* IOError are caught
LoadExisting ==
    /\ pc = "load"
    /\ \/ /\ notes_file.kind \in {"absent", "ioerror", "badjson"}
          /\ existing_notes' = NoStore
          /\ pc' = "merge"
       \/ /\ notes_file.kind = "json"
          /\ existing_notes' = [f \in DOMAIN notes_file \ {"kind"} |-> notes_file[f]]
          /\ pc' = "merge"
       \/ /\ notes_file.kind = "baddecode"
          /\ existing_notes' = NoStore
          /\ pc' = "crashed"
    /\ UNCHANGED <<source_exists, source_files, notes_file, idx, note_counter,
                   all_notes, created, file_counts, notes_by_file, final_notes,
                   printed, run>>

\* main, lines 51-73: the merge; existing_notes.items() raises AttributeError
\* when the loaded JSON value is not a dict
Merge ==
    /\ pc = "merge"
    /\ \/ /\ existing_notes.shape = "dict"
          /\ final_notes' = Merged(notes_by_file, existing_notes.store)
          /\ notes_by_file' = AliasedByFile(notes_by_file, final_notes')
          /\ pc' = "write"
       \/ /\ existing_notes.shape # "dict"
          /\ final_notes' = notes_by_file
          /\ notes_by_file' = notes_by_file
          /\ pc' = "crashed"
    /\ UNCHANGED <<source_exists, source_files, notes_file, idx, note_counter,
                   all_notes, created, file_counts, existing_notes, printed, run>>

\* main, lines 75-83: notes.json is overwritten and the two counts are printed
WriteReport ==
    /\ pc = "write"
    /\ notes_file' = [kind |-> "json", shape |-> "dict", store |-> final_notes]
    /\ printed' = <<TotalAuto(notes_by_file), TotalFinal(final_notes)>>
    /\ pc' = "done"
    /\ UNCHANGED <<source_exists, source_files, idx, note_counter, all_notes,
                   created, file_counts, notes_by_file, existing_notes, final_notes,
                   run>>

\* the tool is run again on the same source.json and the notes.json it wrote
Rerun ==
    /\ pc = "done"
    /\ run < MaxRuns
    /\ run' = run + 1
    /\ pc' = "start"
    /\ idx' = 1
    /\ note_counter' = 0
    /\ all_notes' = <<>>
    /\ created' = <<>>
    /\ file_counts' = <<>>
    /\ notes_by_file' = EmptyDict
    /\ existing_notes' = NoStore
    /\ final_notes' = EmptyDict
    /\ printed' = <<>>
    /\ UNCHANGED <<source_exists, source_files, notes_file>>

Next ==
    \/ Start
    \/ ExtractNext
    \/ Regroup
    \/ LoadExisting
    \/ Merge
    \/ WriteReport
    \/ Rerun

Spec == Init /\ [][Next]_vars

(***************************************************************************)
(* A single extract_from_file on a new extractor, over all source files up *)
(* to MaxLines lines.                                                      *)
(***************************************************************************)
InitExtract ==
    /\ source_exists = TRUE
    /\ source_files \in {<<[path |-> "a.py", lines |-> f]>>
                           : f \in FileInputs \cup SampleFiles}
    /\ notes_file = [kind |-> "absent"]
    /\ pc = "extract"
    /\ run = 1
    /\ Fresh

NextExtract == ExtractNext

SpecExtract == InitExtract /\ [][NextExtract]_vars

(***************************************************************************)
(* Vocabulary of the properties, written from the specification's words    *)
(* and independent of the operators above.                                 *)
(***************************************************************************)
AutoPrefixes ==
    {<<"#", "#", " ", "M", "o", "d", "u", "l", "e", " ", "D", "o", "c", "u", "m", "e",
       "n", "t", "a", "t", "i", "o", "n">>,
     <<"#", "#", " ", "C", "l", "a", "s", "s", ":">>,
     <<"#", "#", " ", "F", "u", "n", "c", "t", "i", "o", "n", ":">>}

BeginsAuto(text) == \E k \in 0..Len(text) : SubSeq(text, 1, k) \in AutoPrefixes

HasText(note) == "note" \in DOMAIN note
ManualWithText(note) == HasText(note) /\ ~BeginsAuto(note.note)
AutoWithText(note) == HasText(note) /\ BeginsAuto(note.note)

Occurs(x, q) == \E i \in 1..Len(q) : q[i] = x

\* the notes extraction produced for a path in this run, in extraction order
FreshNotes(path) ==
    LET mine == SelectSeq(created, LAMBDA c : c.path = path)
    IN  [k \in 1..Len(mine) |-> mine[k].note]

FreshPaths == {created[k].path : k \in 1..Len(created)}

\* the part of a path's final sequence that follows its fresh notes
FinalTail(path) ==
    SubSeq(final_notes[path], Len(FreshNotes(path)) + 1, Len(final_notes[path]))

Merging == pc \in {"write", "done"}
PriorStore == existing_notes.store

\* C1: after the merge, for every path of the existing store, the final
\* sequence is the path's fresh notes in extraction order followed by the
\* existing notes whose text has none of the three prefixes, unchanged and in
\* their original order; no existing note whose text has one of the prefixes
\* is carried over.
C1_Reconcile ==
    Merging =>
        \A p \in DOMAIN PriorStore :
            /\ Len(final_notes[p]) >= Len(FreshNotes(p))
            /\ SubSeq(final_notes[p], 1, Len(FreshNotes(p))) = FreshNotes(p)
            /\ SelectSeq(FinalTail(p), HasText) = SelectSeq(PriorStore[p], ManualWithText)
            /\ \A i \in 1..Len(FinalTail(p)) :
                  /\ Occurs(FinalTail(p)[i], PriorStore[p])
                  /\ ~AutoWithText(FinalTail(p)[i])

C1_Witness ==
    /\ pc = "done"
    /\ \E p \in DOMAIN PriorStore :
          /\ FreshNotes(p) # <<>>
          /\ \E i, j \in 1..Len(PriorStore[p]) :
                /\ ManualWithText(PriorStore[p][i])
                /\ AutoWithText(PriorStore[p][j])
          /\ Len(final_notes[p]) = Len(FreshNotes(p)) + 1

(***************************************************************************)
(* Properties of a single extraction (SpecExtract)                         *)
(***************************************************************************)
TheLines == source_files[1].lines
Extracted == pc = "extract" /\ idx = 2

\* C2 as stated: for every note, pre is empty at line 0, post is empty at the
\* last line, pre has min(2, startLine) entries and post has
\* min(3, n-1-endLine) entries.
C2_AsStated ==
    \A k \in 1..Len(created) :
        LET c == created[k]
        IN  /\ c.start = 0 => c.note.pre = <<>>
            /\ c.end = c.n - 1 => c.note.post = <<>>
            /\ Len(c.note.pre) = Min(2, c.start)
            /\ Len(c.note.post) = Min(3, c.n - 1 - c.end)

\* C2 amended: as above, but post has min(2, n-1-endLine) entries: the slice
\* after the anchor stops before index endLine + 3, so it holds at most the
\* two lines endLine + 1 and endLine + 2.
C2_ContextClamping ==
    \A k \in 1..Len(created) :
        LET c == created[k]
        IN  /\ c.start = 0 => c.note.pre = <<>>
            /\ c.end = c.n - 1 => c.note.post = <<>>
            /\ Len(c.note.pre) = Min(2, c.start)
            /\ Len(c.note.post) = Min(2, c.n - 1 - c.end)

C2_Witness ==
    /\ Extracted
    /\ \E k \in 1..Len(created) :
          /\ created[k].start >= 2
          /\ created[k].n - 1 - created[k].end >= 3
          /\ Len(all_notes[k].val.pre) = 2
          /\ Len(all_notes[k].val.post) = 2

ExampleLines ==
    <<"\"\"\"Mod doc.\"\"\"", "", "def f():", "    \"\"\"Func doc.\"\"\"", "    pass">>
ExampleModuleText ==
    <<"#", "#", " ", "M", "o", "d", "u", "l", "e", " ", "D", "o", "c", "u", "m", "e",
      "n", "t", "a", "t", "i", "o", "n", "\n", "\n", "M", "o", "d", " ", "d", "o", "c", ".">>
ExampleFunctionText ==
    <<"#", "#", " ", "F", "u", "n", "c", "t", "i", "o", "n", ":", " ", "f", "\n", "\n",
      "F", "u", "n", "c", " ", "d", "o", "c", ".">>

ExampleModuleNote ==
    /\ created[1].start = 0 /\ created[1].end = 0
    /\ all_notes[1].val.path = "a.py"
    /\ all_notes[1].val.note = ExampleModuleText
    /\ all_notes[1].val.pre = <<>>
    /\ all_notes[1].val.post = <<"", "def f():">>

\* C3 as stated: the example file yields exactly two notes, the module note
\* and a function note anchored at [3,3] with pre = ["", "def f():"], code =
\* the docstring line alone and post = ["    pass"].
C3_AsStated ==
    (Extracted /\ TheLines = ExampleLines) =>
        /\ Len(all_notes) = 2
        /\ ExampleModuleNote
        /\ created[2].start = 3 /\ created[2].end = 3
        /\ all_notes[2].val.note = ExampleFunctionText
        /\ all_notes[2].val.pre = <<"", "def f():">>
        /\ all_notes[2].val.code = <<"    \"\"\"Func doc.\"\"\"">>
        /\ all_notes[2].val.post = <<"    pass">>

\* C3 amended: the example file yields exactly two notes, the module note as
\* stated and a function note anchored at [2,3] (from the def line to the end
\* of the docstring) with pre = [module docstring line, ""], code = ["def f():",
\* docstring line] and post = ["    pass"].
C3_EndToEnd ==
    (Extracted /\ TheLines = ExampleLines) =>
        /\ Len(all_notes) = 2
        /\ ExampleModuleNote
        /\ created[2].start = 2 /\ created[2].end = 3
        /\ all_notes[2].val.path = "a.py"
        /\ all_notes[2].val.note = ExampleFunctionText
        /\ all_notes[2].val.pre = <<"\"\"\"Mod doc.\"\"\"", "">>
        /\ all_notes[2].val.code = <<"def f():", "    \"\"\"Func doc.\"\"\"">>
        /\ all_notes[2].val.post = <<"    pass">>

C3_Witness == Extracted /\ TheLines = ExampleLines /\ Len(all_notes) = 2

\* the line after line i that is not blank (0 if none)
NextNonBlank(lines, i) ==
    LET later == {j \in (i + 1)..Len(lines) : lines[j] # ""}
    IN  IF later = {} THEN 0 ELSE CHOOSE j \in later : \A k \in later : j <= k

\* does the body that starts after line i open with a non-empty string literal
OpensWithDocstring(lines, i) ==
    LET j == NextNonBlank(lines, i)
    IN  /\ j # 0
        /\ Lex(lines[j]).kind \in {"doc", "docopen"}
        /\ Lex(lines[j]).text # <<>>

\* the 1-indexed header lines of the definitions that carry a docstring
DocumentedDefinitions(lines) ==
    {i \in 1..Len(lines) :
        /\ Lex(lines[i]).kind \in {"def", "async", "class"}
        /\ OpensWithDocstring(lines, i)}

ClassWithTwoMethods ==
    <<"class C:", "    \"\"\"Func doc.\"\"\"",
      "    def m(self):", "        \"\"\"Meth doc.\"\"\"",
      "    def m(self):", "        \"\"\"Meth doc.\"\"\"">>

\* C7: a file that parses yields exactly one note per class, function or
\* async function that carries a (non-empty) docstring, whatever its nesting
\* depth, plus one if the module has a docstring; a class with a docstring and
\* two documented methods yields exactly 3.
C7_NestedIndependent ==
    Extracted =>
        /\ AstParse(TheLines).ok =>
              /\ Len(all_notes) = Cardinality(DocumentedDefinitions(TheLines))
                                  + (IF OpensWithDocstring(TheLines, 0) THEN 1 ELSE 0)
              /\ \A i \in DocumentedDefinitions(TheLines) :
                    Cardinality({k \in 1..Len(created) :
                                    /\ created[k].start = i - 1
                                    /\ created[k].title # TitleModule}) = 1
        /\ TheLines = ClassWithTwoMethods => Len(all_notes) = 3

C7_Witness ==
    /\ Extracted
    /\ TheLines = ClassWithTwoMethods
    /\ Len(all_notes) = 3

\* C9: every note of a file with lines L has 0 <= startLine <= endLine < len(L),
\* code = L[startLine..endLine], pre the lines just before startLine and post
\* the lines just after endLine, so that pre ++ code ++ post is one contiguous
\* run of L inside the file.
C9_SliceConsistency ==
    /\ Len(all_notes) = Len(created)
    /\ \A k \in 1..Len(created) :
          LET c == created[k]
              nt == all_notes[k].val
              first == c.start - Len(nt.pre)
              last == c.end + Len(nt.post)
          IN  /\ 0 <= c.start /\ c.start <= c.end /\ c.end < Len(TheLines)
              /\ 0 <= first /\ last < Len(TheLines)
              /\ nt.code = SubSeq(TheLines, c.start + 1, c.end + 1)
              /\ nt.pre = SubSeq(TheLines, first + 1, c.start)
              /\ nt.post = SubSeq(TheLines, c.end + 2, last + 1)
              /\ nt.pre \o nt.code \o nt.post = SubSeq(TheLines, first + 1, last + 1)

C9_Witness ==
    /\ Extracted
    /\ \E k \in 1..Len(created) :
          /\ created[k].start > 0
          /\ created[k].end = created[k].start + 2
          /\ all_notes[k].val.pre # <<>>
          /\ all_notes[k].val.post # <<>>
          /\ Len(all_notes[k].val.code) = 3

(***************************************************************************)
(* Properties of whole runs of the tool (Spec)                             *)
(***************************************************************************)
\* the fresh notes regrouped by path
FreshStore == [p \in FreshPaths |-> FreshNotes(p)]

\* a prior store that is missing, unreadable, not parseable, or not a mapping.
\* Until main writes, notes_file still is the prior store.
BadPrior ==
    \/ notes_file.kind \in {"absent", "ioerror", "badjson", "baddecode"}
    \/ notes_file.kind = "json" /\ notes_file.shape # "dict"

\* C4: with a prior store that is missing, unreadable, not parseable or not of
\* the expected structure the run does not fail, and the final store it is
\* about to write equals the fresh notes regrouped by path.
C4_ToleratedPrior ==
    BadPrior =>
        /\ pc # "crashed"
        /\ pc = "write" => final_notes = FreshStore

\* C5: an entry of the existing store without a note field is kept in its
\* path's final sequence.
C5_FieldlessKept ==
    Merging =>
        \A p \in DOMAIN PriorStore :
            \A i \in 1..Len(PriorStore[p]) :
                ~HasText(PriorStore[p][i]) => Occurs(PriorStore[p][i], final_notes[p])

RECURSIVE TotalLen(_, _)
TotalLen(store, paths) ==
    IF paths = {} THEN 0
    ELSE LET p == CHOOSE x \in paths : TRUE
         IN  Len(store[p]) + TotalLen(store, paths \ {p})

\* the retained notes: what each final sequence holds beyond its fresh notes
Retained == TotalLen(final_notes, DOMAIN final_notes) - Len(created)

\* C6: on a successful run the first printed count is the number of notes
\* extraction produced in this run, the second is the number of notes in the
\* final store, and second = first + retained manual notes.
C6_ReportedCounts ==
    pc = "done" =>
        /\ printed[1] = Len(created)
        /\ printed[2] = TotalLen(final_notes, DOMAIN final_notes)
        /\ printed[2] = printed[1] + Retained

DigitValue(ch) ==
    CASE ch = "0" -> 0 [] ch = "1" -> 1 [] ch = "2" -> 2 [] ch = "3" -> 3
      [] ch = "4" -> 4 [] ch = "5" -> 5 [] ch = "6" -> 6 [] ch = "7" -> 7
      [] ch = "8" -> 8 [] ch = "9" -> 9

RECURSIVE DecimalValue(_)
DecimalValue(ds) ==
    IF ds = <<>> THEN 0
    ELSE DecimalValue(SubSeq(ds, 1, Len(ds) - 1)) * 10 + DigitValue(ds[Len(ds)])

\* the integer suffix of a key "note_<n>"
KeySuffix(key) == DecimalValue(SubSeq(key, 6, Len(key)))

RECURSIVE SumSeq(_)
SumSeq(q) == IF q = <<>> THEN 0 ELSE Head(q) + SumSeq(Tail(q))

\* C8: within one run of the extractor every key is "note_" and a number
\* strictly greater than the number of every earlier key, whatever files were
\* skipped or failed to parse in between, and the flat result has as many
\* entries as the per-file results together.
C8_KeyUniqueness ==
    /\ \A i \in 1..Len(all_notes) :
          /\ Len(all_notes[i].key) > 5
          /\ SubSeq(all_notes[i].key, 1, 5) = <<"n", "o", "t", "e", "_">>
    /\ \A i, j \in 1..Len(all_notes) :
          i < j => KeySuffix(all_notes[i].key) < KeySuffix(all_notes[j].key)
    /\ Len(all_notes) = SumSeq(file_counts)

C8_Witness ==
    /\ pc = "load"
    /\ Len(file_counts) = 2
    /\ file_counts[1] > 0 /\ file_counts[2] > 0
    /\ \E i \in 1..Len(all_notes) : KeySuffix(all_notes[i].key) >= 10

\* C10: every note extraction emits begins with one of the three prefixes;
\* after any run the auto-generated notes of a path are exactly its fresh
\* notes; and a run that starts from the store the previous run wrote, on the
\* same source, writes that same store again.
C10_Idempotent ==
    /\ \A k \in 1..Len(created) : BeginsAuto(created[k].note.note)
    /\ pc = "done" =>
          /\ \A p \in DOMAIN final_notes :
                SelectSeq(final_notes[p], AutoWithText) = FreshNotes(p)
          /\ run >= 2 => notes_file.store = PriorStore

C10_Witness ==
    /\ pc = "done"
    /\ run = 2
    /\ \E p \in DOMAIN final_notes :
          /\ FreshNotes(p) # <<>>
          /\ Len(final_notes[p]) > Len(FreshNotes(p))
    /\ \E p \in DOMAIN final_notes : final_notes[p] = <<>>
=============================================================================
